---- MODULE Spec2Model ----
(***************************************************************************)
(* go-spaserve: a static file handler for single page applications.        *)
(*                                                                         *)
(* The model covers handler construction (NewStaticFilesHandler /          *)
(* StaticFilesHandler, InjectWebEnv, CopyFileSys) and request resolution   *)
(* in the three handler variants of the repository:                        *)
(*   "ServeHTTP"  - StaticFilesHandler.ServeHTTP        (src/unnamed/part_001)            *)
(*   "legacy"     - closure of StaticFilesHandler       (src/staticFileServerHandler.go)  *)
(*   "pkg"        - closure of pkg.StaticFilesHandler   (src/pkg/staticFileServerHandler.go) *)
(*                                                                         *)
(* Strings are sequences of one-character strings, so that path.Clean,     *)
(* strings.TrimPrefix, path.Ext, slicing and indexing are computed.        *)
(***************************************************************************)
EXTENDS Integers, Sequences, FiniteSets, TLC

\* ------------------------------------------------------------------ bounds
\* longest request path enumerated over PathAlphabet
MaxPathLen == 4
\* longest relative path p appended to a base path B (request B ++ p)
MaxRelLen == 2
\* longest namespace string enumerated over NsAlphabet
MaxNsLen == 2
\* number of request slots handled concurrently
MaxReqs == 2
\* tokens of an entry document
MaxDocLen == 3
\* children of the root of a hand-built node tree
MaxKids == 2

\* ------------------------------------------------------------------ strings
PathAlphabet == {"/", ".", "a"}
NsAlphabet == {"a", "1", "_", " ", "!"}

Seqs(A, n) == UNION {[1..k -> A] : k \in 0..n}

SLASH == <<"/">>
DOT == <<".">>
DOTDOT == <<".", ".">>
IndexHtml == <<"i", "n", "d", "e", "x", ".", "h", "t", "m", "l">>
SlashIndexHtml == SLASH \o IndexHtml

\* strings.HasPrefix / strings.HasSuffix
HasPrefix(s, p) == Len(p) <= Len(s) /\ SubSeq(s, 1, Len(p)) = p
HasSuffix(s, p) == Len(p) <= Len(s) /\ SubSeq(s, Len(s) - Len(p) + 1, Len(s)) = p

\* strings.TrimPrefix: s without the leading p, or s unchanged
TrimPrefix(s, p) == IF HasPrefix(s, p) THEN SubSeq(s, Len(p) + 1, Len(s)) ELSE s

\* strings.TrimSuffix: s without the trailing p, or s unchanged
TrimSuffix(s, p) == IF HasSuffix(s, p) THEN SubSeq(s, 1, Len(s) - Len(p)) ELSE s

\* s[:n]; out of range when n > len(s) (a Go run-time panic)
SliceInRange(s, n) == n <= Len(s)
SliceTo(s, n) == SubSeq(s, 1, n)

\* the slash-separated elements of s (strings.Split(s, "/"))
RECURSIVE SplitFrom(_, _, _)
SplitFrom(s, i, cur) ==
    IF i > Len(s) THEN <<cur>>
    ELSE IF s[i] = "/" THEN <<cur>> \o SplitFrom(s, i + 1, <<>>)
    ELSE SplitFrom(s, i + 1, Append(cur, s[i]))
Split(s) == SplitFrom(s, 1, <<>>)

\* strings.Join(elems, "/")
RECURSIVE Join(_)
Join(elems) ==
    IF Len(elems) = 0 THEN <<>>
    ELSE IF Len(elems) = 1 THEN elems[1]
    ELSE elems[1] \o SLASH \o Join(Tail(elems))

\* path.Clean: collapse slashes, drop "." elements, resolve inner "..",
\* drop ".." at the start of a rooted path; "" becomes "."
RECURSIVE CleanElems(_, _, _)
CleanElems(elems, stack, rooted) ==
    IF Len(elems) = 0 THEN stack
    ELSE LET e == Head(elems)
             rest == Tail(elems)
         IN  IF e = <<>> \/ e = DOT THEN CleanElems(rest, stack, rooted)
             ELSE IF e = DOTDOT THEN
                    IF Len(stack) > 0 /\ stack[Len(stack)] # DOTDOT
                      THEN CleanElems(rest, SubSeq(stack, 1, Len(stack) - 1), rooted)
                    ELSE IF rooted THEN CleanElems(rest, stack, rooted)
                    ELSE CleanElems(rest, Append(stack, e), rooted)
             ELSE CleanElems(rest, Append(stack, e), rooted)

DotIfEmpty(out) == IF out = <<>> THEN DOT ELSE out
CleanBody(p, rooted) ==
    DotIfEmpty((IF rooted THEN SLASH ELSE <<>>) \o Join(CleanElems(Split(p), <<>>, rooted)))
Clean(p) == IF p = <<>> THEN DOT ELSE CleanBody(p, p[1] = "/")

\* path.Ext: the suffix from the last "." of the last element, "" if none
RECURSIVE ExtFrom(_, _)
ExtFrom(p, i) ==
    IF i < 1 \/ p[i] = "/" THEN <<>>
    ELSE IF p[i] = "." THEN SubSeq(p, i, Len(p))
    ELSE ExtFrom(p, i - 1)
Ext(p) == ExtFrom(p, Len(p))

\* fs.ValidPath: "." or slash-separated elements none of which is "", "." or ".."
ValidElems(elems) == \A i \in 1..Len(elems) : elems[i] \notin {<<>>, DOT, DOTDOT}
ValidPath(name) == name = DOT \/ (name # <<>> /\ ValidElems(Split(name)))

\* ------------------------------------------------------------------ documents
\* An HTML document's bytes are a sequence of tokens, each token a sequence of
\* strings: a tag <<"<meta>">>, a run of text <<"x", "x">>, or a script element
\* with its text <<"<script>", ..., "</script>">>.  A node of the parsed tree
\* (html.Node) has a tag ("#document", "#text" or the element's name), the text
\* of a text node, and its children in order.
Node(tag, text, kids) == [tag |-> tag, text |-> text, kids |-> kids]
Element(tag, kids) == Node(tag, <<>>, kids)
TextNode(s) == Node("#text", s, <<>>)

IsText(tok) == Head(tok) = "x"
IsScript(tok) == Head(tok) = "<script>"
IsHeadContent(tok) == tok = <<"<meta>">> \/ IsScript(tok)
ClosesDocument(tok) == tok \in {<<"</body>">>, <<"</html>">>}

\* the node a content token inserts
NodeOf(tok) ==
    IF IsText(tok) THEN TextNode(tok)
    ELSE IF IsScript(tok) THEN Element("script", <<TextNode(SubSeq(tok, 2, Len(tok) - 1))>>)
    ELSE IF tok = <<"<meta>">> THEN Element("meta", <<>>)
    ELSE Element("br", <<>>)

\* insertion of a node as last child; adjacent text is one text node
AppendNode(kids, n) ==
    IF n.tag = "#text" /\ kids # <<>> /\ kids[Len(kids)].tag = "#text"
      THEN [kids EXCEPT ![Len(kids)].text = @ \o n.text]
    ELSE Append(kids, n)

Document(head, body) ==
    Node("#document", <<>>, <<Element("html", <<Element("head", head), Element("body", body)>>)>>)

\* html.Parse: the tree construction of HTML5 with its insertion modes; the
\* html, head and body elements are created whether or not the bytes name them
RECURSIVE ParseFrom(_, _, _, _, _)
ParseFrom(toks, i, mode, head, body) ==
    IF i > Len(toks) THEN Document(head, body)
    ELSE IF toks[i] = <<"<html>">> THEN ParseFrom(toks, i + 1, mode, head, body)
    ELSE IF mode = "beforeHead"
      THEN IF toks[i] = <<"<head>">> THEN ParseFrom(toks, i + 1, "inHead", head, body)
           ELSE ParseFrom(toks, i, "inHead", head, body)
    ELSE IF mode = "inHead"
      THEN IF IsHeadContent(toks[i])
             THEN ParseFrom(toks, i + 1, mode, AppendNode(head, NodeOf(toks[i])), body)
           ELSE IF toks[i] = <<"</head>">> THEN ParseFrom(toks, i + 1, "afterHead", head, body)
           ELSE IF toks[i] = <<"<head>">> THEN ParseFrom(toks, i + 1, mode, head, body)
           ELSE ParseFrom(toks, i, "afterHead", head, body)
    ELSE IF mode = "afterHead"
      THEN IF IsHeadContent(toks[i])
             THEN ParseFrom(toks, i + 1, mode, AppendNode(head, NodeOf(toks[i])), body)
           ELSE IF toks[i] = <<"<body>">> THEN ParseFrom(toks, i + 1, "inBody", head, body)
           ELSE IF toks[i] \in {<<"<head>">>, <<"</head>">>}
             THEN ParseFrom(toks, i + 1, mode, head, body)
           ELSE ParseFrom(toks, i, "inBody", head, body)
    ELSE IF toks[i] \in {<<"<head>">>, <<"</head>">>, <<"<body>">>} \/ ClosesDocument(toks[i])
      THEN ParseFrom(toks, i + 1, mode, head, body)
    ELSE ParseFrom(toks, i + 1, mode, head, AppendNode(body, NodeOf(toks[i])))
Parse(d) == ParseFrom(d, 1, "beforeHead", <<>>, <<>>)

\* html.Render
RECURSIVE RenderNode(_)
RECURSIVE RenderKids(_, _)
RenderKids(kids, i) ==
    IF i > Len(kids) THEN <<>> ELSE RenderNode(kids[i]) \o RenderKids(kids, i + 1)
RenderNode(n) ==
    IF n.tag = "#text" THEN <<n.text>>
    ELSE IF n.tag = "#document" THEN RenderKids(n.kids, 1)
    ELSE IF n.tag = "script"
      THEN <<<<"<script>">> \o (IF n.kids = <<>> THEN <<>> ELSE n.kids[1].text)
             \o <<"</script>">>>>
    ELSE IF n.tag \in {"meta", "br"} THEN <<<<"<" \o n.tag \o ">">>>>
    ELSE <<<<"<" \o n.tag \o ">">>>> \o RenderKids(n.kids, 1) \o <<<<"</" \o n.tag \o ">">>>>
Render(doc) == RenderNode(doc)

\* the result of findHead: the position of the node found, as the child
\* indices from the node searched, or NotFound for nil
NotFound == <<0>>
Below(k, found) == IF found = NotFound THEN NotFound ELSE <<k>> \o found

\* findHead: nil at a body element, the node at a head element, else the
\* first non-nil result among the children in order
RECURSIVE findHead(_)
RECURSIVE findHeadInKids(_, _)
findHeadInKids(kids, k) ==
    IF k > Len(kids) THEN NotFound
    ELSE IF findHead(kids[k]) # NotFound THEN Below(k, findHead(kids[k]))
    ELSE findHeadInKids(kids, k + 1)
findHead(n) ==
    IF n.tag = "body" THEN NotFound
    ELSE IF n.tag = "head" THEN <<>>
    ELSE findHeadInKids(n.kids, 1)

\* the node at a position
RECURSIVE NodeAt(_, _)
NodeAt(n, pos) == IF pos = <<>> THEN n ELSE NodeAt(n.kids[Head(pos)], Tail(pos))

\* the node appended as last child instead
RECURSIVE InsertLastAt(_, _, _)
InsertLastAt(n, pos, t) ==
    IF pos = <<>> THEN [n EXCEPT !.kids = Append(@, t)]
    ELSE [n EXCEPT !.kids[Head(pos)] = InsertLastAt(@, Tail(pos), t)]

\* headTag.InsertBefore(t, headTag.FirstChild): t becomes the first child of
\* the node at pos
RECURSIVE InsertFirstAt(_, _, _)
InsertFirstAt(n, pos, t) ==
    IF pos = <<>> THEN [n EXCEPT !.kids = <<t>> \o @]
    ELSE [n EXCEPT !.kids[Head(pos)] = InsertFirstAt(@, Tail(pos), t)]

\* ------------------------------------------------------------------ file systems
\* A source tree (fs.FS) is the sequence of its entries in fs.WalkDir order
\* (pre-order, names in lexical order), the root "." first.  A file's data is
\* its bytes as a sequence of tokens; a directory has none.
Entry(p, d, b) == [path |-> p, isDir |-> d, data |-> b]
RootDir == Entry(DOT, TRUE, <<>>)
FileAA == <<"a", ".", "a">>
DirA == <<"a">>
DirB == <<"b">>
FileInA == <<"a", "/", "a", ".", "a">>
IndexInA == <<"a", "/">> \o IndexHtml

\* bytes: a text file, a document with a head tag, a document without one
Txt == <<<<"x">>>>
DocHead == <<<<"<head>">>, <<"<meta>">>, <<"</head>">>, <<"<body>">>, <<"x">>>>
DocNoHead == <<<<"<body>">>, <<"x">>>>

TreeSite == <<RootDir, Entry(FileAA, FALSE, Txt), Entry(IndexHtml, FALSE, DocHead)>>
TreeNested == <<RootDir, Entry(DirA, TRUE, <<>>), Entry(FileInA, FALSE, Txt),
                Entry(IndexInA, FALSE, DocHead), Entry(DirB, TRUE, <<>>),
                Entry(IndexHtml, FALSE, DocHead)>>
TreeNoIndex == <<RootDir, Entry(FileAA, FALSE, Txt)>>
TreeNoHead == <<RootDir, Entry(IndexHtml, FALSE, DocNoHead)>>
Trees == {TreeSite, TreeNested, TreeNoIndex, TreeNoHead}

\* fs.FS.Open on the source tree
SourceHas(tree, p) == \E i \in 1..Len(tree) : tree[i].path = p

\* memfs.New(): the empty in-memory file system (the root directory always exists)
MemfsNew == <<>>
NoFS == "nil"

\* path.Dir of a clean relative path
DirOfElems(elems) ==
    IF Len(elems) <= 1 THEN DOT ELSE Join(SubSeq(elems, 1, Len(elems) - 1))
Dir(p) == DirOfElems(Split(p))

MemfsIsDir(m, p) == p = DOT \/ (p \in DOMAIN m /\ m[p].isDir)

\* memfs.FS.MkdirAll: [fs, ok]; the missing directories of the path are
\* created, parents first; a file in the way is an error
MkdirIn(r, p) ==
    IF ~r.ok THEN r
    ELSE IF p \in DOMAIN r.fs THEN [fs |-> r.fs, ok |-> r.fs[p].isDir]
    ELSE [fs |-> (p :> [isDir |-> TRUE, data |-> <<>>]) @@ r.fs, ok |-> TRUE]
\* the call reporting success without creating anything
MemfsMkdirAllNothing(m, p) == [fs |-> m, ok |-> TRUE]

RECURSIVE MemfsMkdirAll(_, _)
MemfsMkdirAll(m, p) ==
    IF ~ValidPath(p) THEN [fs |-> m, ok |-> FALSE]
    ELSE IF p = DOT THEN [fs |-> m, ok |-> TRUE]
    ELSE MkdirIn(MemfsMkdirAll(m, Dir(p)), p)

\* memfs.FS.WriteFile: fails when the parent directory is missing
MemfsWriteFile(m, p, b) ==
    IF ~ValidPath(p) \/ p = DOT \/ ~MemfsIsDir(m, Dir(p)) \/ MemfsIsDir(m, p)
      THEN [fs |-> m, ok |-> FALSE]
    ELSE [fs |-> (p :> [isDir |-> FALSE, data |-> b]) @@ m, ok |-> TRUE]

\* memfs.FS.Open: "ok", "notexist" (errors.Is(err, os.ErrNotExist)) or
\* "invalid" (fs.ErrInvalid for a name fs.ValidPath rejects)
MemfsOpen(m, name) ==
    IF ~ValidPath(name) THEN "invalid"
    ELSE IF name = DOT \/ name \in DOMAIN m THEN "ok"
    ELSE "notexist"

\* ------------------------------------------------------------------ errors
\* An error value is the sequence of the errors it wraps, the nil error the
\* empty one: errors.New gives one element, errors.Join(a, b) both.
ErrNone == <<>>
ErrNoNamespace == <<"ErrNoNamespace">>
ErrCouldNotParseNamespace == <<"ErrCouldNotParseNamespace">>
ErrNoIndexFound == <<"ErrNoIndexFound">>
ErrCouldNotMarshalConfig == <<"ErrCouldNotMarshalConfig">>
ErrCouldNotFindHead == <<"ErrCouldNotFindHead">>
ErrUnexpectedWalkError == <<"ErrUnexpectedWalkError">>
ErrCouldNotMakeDir == <<"ErrCouldNotMakeDir">>
ErrCouldNotOpenFile == <<"ErrCouldNotOpenFile">>
ErrCouldNotReadFile == <<"ErrCouldNotReadFile">>
ErrCouldNotWriteFile == <<"ErrCouldNotWriteFile">>
ErrCouldNotAppendToIndex == <<"ErrCouldNotAppendToIndex">>
errorsJoin(a, b) == a \o b
errorsIs(err, target) == \E k \in 1..Len(err) : <<err[k]>> = target

\* the causes the libraries report
JsonUnsupportedType == <<"json.UnsupportedTypeError">>
SourceError == <<"source fs error">>
MemfsError == <<"memfs error">>
\* the errors a caller's hook can return: one of its own, or the sentinels of
\* io/fs that fs.WalkDir interprets
HookError == <<"hook error">>
SkipDir == <<"fs.SkipDir">>
SkipAll == <<"fs.SkipAll">>
\* the panic of html.Node.InsertBefore on a node that is already attached
PanicAttached == <<"panic: html: InsertBefore called for an attached child Node">>

\* failures the source fs.FS can produce while an entry is processed: ReadDir
\* of a directory ("walk"), Open or ReadAll of a file
SourceFaults == {"none", "walk", "open", "read"}
\* what a caller's hook can return in place of the data
HookFaults == {"hook", "skipdir", "skipall"}
HookFaultError(fault) ==
    IF fault = "hook" THEN HookError ELSE IF fault = "skipdir" THEN SkipDir ELSE SkipAll

\* ------------------------------------------------------------------ InjectWebEnv
Letters == {"a", "b", "c", "d", "e", "f", "g", "h", "i", "j", "k", "l", "m", "n",
            "o", "p", "q", "r", "s", "t", "u", "v", "w", "x", "y", "z",
            "A", "B", "C", "D", "E", "F", "G", "H", "I", "J", "K", "L", "M", "N",
            "O", "P", "Q", "R", "S", "T", "U", "V", "W", "X", "Y", "Z"}
Digits == {"0", "1", "2", "3", "4", "5", "6", "7", "8", "9"}
Spaces == {" "}

\* strings.TrimSpace
RECURSIVE TrimLeft(_)
TrimLeft(s) == IF s # <<>> /\ Head(s) \in Spaces THEN TrimLeft(Tail(s)) ELSE s
RECURSIVE TrimRight(_)
TrimRight(s) ==
    IF s # <<>> /\ s[Len(s)] \in Spaces THEN TrimRight(SubSeq(s, 1, Len(s) - 1)) ELSE s
TrimSpace(s) == TrimRight(TrimLeft(s))

\* namespaceRegex ^[a-zA-Z_][a-zA-Z0-9_]*$
\* the pattern without its first-character class
namespaceRegexAnyFirst(s) ==
    /\ s # <<>>
    /\ \A k \in 1..Len(s) : s[k] \in Letters \cup Digits \cup {"_"}

namespaceRegexMatch(s) ==
    /\ s # <<>>
    /\ s[1] \in Letters \cup {"_"}
    /\ \A i \in 1..Len(s) : s[i] \in Letters \cup Digits \cup {"_"}

\* InjectWebEnv, lines 23-29: the error of the namespace check, ErrNone if it passes
NamespaceCheck(ns) ==
    IF ns = <<>> THEN ErrNoNamespace
    ELSE IF ~namespaceRegexMatch(TrimSpace(ns)) THEN ErrCouldNotParseNamespace
    ELSE ErrNone

\* the check answering true for every tree
indexExistsAlways(tree) == TRUE

\* indexExists: filesys.Open("index.html") succeeds
indexExists(tree) == SourceHas(tree, IndexHtml)

\* json.Marshal of the configuration: nil gives null, a value with no JSON
\* form ("bad", a channel) an error
jsonMarshal(conf) == IF conf = "nil" THEN "null" ELSE "{}"

\* the kind returned without the cause
constructScriptTagErrBare(conf) == IF conf = "bad" THEN ErrCouldNotMarshalConfig ELSE ErrNone

\* constructScriptTag: the error
constructScriptTagErr(conf) ==
    IF conf = "bad" THEN errorsJoin(ErrCouldNotMarshalConfig, JsonUnsupportedType)
    ELSE ErrNone

\* constructScriptTag: the script element with its text node
ScriptText(ns, conf) == <<"window.">> \o ns \o <<" = ", jsonMarshal(conf), ";">>
constructScriptTag(ns, conf) == Element("script", <<TextNode(ScriptText(ns, conf))>>)

\* A hook (OnHookFunc): nil, the closure appendToIndex(t) returns, which holds
\* the node t (attached once it has a parent), or a function of the caller.
Hook(kind, t, attached) == [kind |-> kind, t |-> t, attached |-> attached]
NilHook == Hook("nil", Element("none", <<>>), FALSE)
UserHook == Hook("user", Element("none", <<>>), FALSE)
AppendHook(t) == Hook("appendToIndex", t, FALSE)

HookResult(d, err, h) == [data |-> d, err |-> err, hook |-> h]

\* lines 82-96: findHead, InsertBefore, Render
InsertAndRender(h, doc, head) ==
    IF head = NotFound THEN HookResult(<<>>, ErrCouldNotFindHead, h)
    ELSE IF h.attached THEN HookResult(<<>>, PanicAttached, h)
    ELSE HookResult(Render(InsertFirstAt(doc, head, h.t)), ErrNone,
                    [h EXCEPT !.attached = TRUE])

\* the function matching every index.html, whatever its directory
appendToIndexAnyDir(h, p, d) ==
    IF ~HasSuffix(p, IndexHtml) THEN HookResult(d, ErrNone, h)
    ELSE InsertAndRender(h, Parse(d), findHead(Parse(d)))

\* the function appendToIndex(t) returns, on path p and data d
appendToIndex(h, p, d) ==
    IF p # IndexHtml THEN HookResult(d, ErrNone, h)
    ELSE InsertAndRender(h, Parse(d), findHead(Parse(d)))

\* InjectWindowVars lines 77-82: the error of its appendToIndex is tagged
\* (a panic is no returned error)
AppendTagged(r) ==
    IF r.err \in {ErrNone, PanicAttached} THEN r
    ELSE [r EXCEPT !.err = errorsJoin(ErrCouldNotAppendToIndex, r.err)]

\* the hook step losing the data when there is no hook
RunHookNilDropsData(h, p, d, fault) ==
    IF h.kind = "nil" THEN HookResult(<<>>, ErrNone, h)
    ELSE IF h.kind = "appendToIndex" THEN appendToIndex(h, p, d)
    ELSE IF h.kind = "InjectWindowVars" THEN AppendTagged(appendToIndex(h, p, d))
    ELSE IF fault \in HookFaults THEN HookResult(<<>>, HookFaultError(fault), h)
    ELSE HookResult(d, ErrNone, h)

\* onHook(path, data), with the outcome a caller's hook chooses
RunHook(h, p, d, fault) ==
    IF h.kind = "nil" THEN HookResult(d, ErrNone, h)
    ELSE IF h.kind = "appendToIndex" THEN appendToIndex(h, p, d)
    ELSE IF h.kind = "InjectWindowVars" THEN AppendTagged(appendToIndex(h, p, d))
    ELSE IF fault \in HookFaults THEN HookResult(<<>>, HookFaultError(fault), h)
    ELSE HookResult(d, ErrNone, h)

\* ------------------------------------------------------------------ CopyFileSys
\* the fs.WalkDir callback on one entry: [fs, err, hook]
WalkFnResult(m, err, h) == [fs |-> m, err |-> err, hook |-> h]
Stored(r, failure, h) ==
    WalkFnResult(r.fs, IF r.ok THEN ErrNone ELSE errorsJoin(failure, MemfsError), h)

\* lines 43-54: the hook has run; its error is returned as it is, else the
\* file is written
HookAndWrite(m, e, h) ==
    IF h.err # ErrNone THEN WalkFnResult(m, h.err, h.hook)
    ELSE Stored(MemfsWriteFile(m, e.path, h.data), ErrCouldNotWriteFile, h.hook)

\* fs.WalkDir calls the function on a directory before reading it, and a
\* second time with the error when reading it fails
AfterMkdir(r, fault) ==
    IF r.err = ErrNone /\ fault = "walk"
      THEN WalkFnResult(r.fs, errorsJoin(ErrUnexpectedWalkError, SourceError), r.hook)
    ELSE r

WalkFn(m, e, hook, fault) ==
    IF e.isDir
      THEN AfterMkdir(Stored(MemfsMkdirAll(m, e.path), ErrCouldNotMakeDir, hook), fault)
    ELSE IF fault = "open"
      THEN WalkFnResult(m, errorsJoin(ErrCouldNotOpenFile, SourceError), hook)
    ELSE IF fault = "read"
      THEN WalkFnResult(m, errorsJoin(ErrCouldNotReadFile, SourceError), hook)
    ELSE HookAndWrite(m, e, RunHook(hook, e.path, e.data, fault))

\* fs.WalkDir after the function returned fs.SkipDir on the file at i: the
\* rest of the file's directory is skipped
InDir(p, dir) == dir = DOT \/ HasPrefix(p, dir \o SLASH)
RECURSIVE SkipRest(_, _, _)
SkipRest(tree, i, dir) ==
    IF i <= Len(tree) /\ InDir(tree[i].path, dir) THEN SkipRest(tree, i + 1, dir) ELSE i

\* CopyFileSys on a source that produces no fault, with a hook that reports
\* none: the walk from entry i on
RECURSIVE WalkFrom(_, _, _, _)
RECURSIVE WalkNext(_, _, _)
WalkFrom(tree, i, m, hook) ==
    IF i > Len(tree) THEN WalkFnResult(m, ErrNone, hook)
    ELSE WalkNext(tree, i, WalkFn(m, tree[i], hook, "none"))
WalkNext(tree, i, r) ==
    IF r.err # ErrNone THEN r ELSE WalkFrom(tree, i + 1, r.fs, r.hook)
CopyFileSys(tree, hook) == WalkFrom(tree, 1, MemfsNew, hook)

\* ------------------------------------------------------------------ options
\* defaultStaticFilesHandlerOpts.basePath
DefaultBasePath == SLASH
\* defaultStaticFilesHandlerOpts.ns
DefaultNs == <<"A", "P", "P", "_", "E", "N", "V">>

\* WithBasePath: the configured prefix for an argument
EnsureTrailingSlash(b) == IF b[Len(b)] # "/" THEN b \o SLASH ELSE b
EnsureLeadingSlash(b) == IF b[1] # "/" THEN SLASH \o b ELSE b
WithBasePath(arg) ==
    EnsureTrailingSlash(EnsureLeadingSlash(IF arg = <<>> THEN DefaultBasePath ELSE arg))

\* WithInjectWebEnv: the configured namespace for an argument
WithInjectWebEnvNs(namespace) == IF namespace = <<>> THEN DefaultNs ELSE namespace

\* arguments given to WithBasePath
BasePathArgs == {<<>>, <<"a">>, <<"/", "a">>, <<"a", "/">>, <<"/", "a", "/">>,
                 <<"a", "/", "a">>, <<"/", "a", "/", "a", "/">>}
BasePaths == {WithBasePath(a) : a \in BasePathArgs}

\* opts.logger: nil, or a logger whose handler has the given threshold
Loggers == {"nil", "info", "debug"}
LevelRank(l) == CASE l = "debug" -> 0 [] l = "info" -> 1 [] l = "error" -> 2

\* servespaLogger.logContext / newLoggerWithContext: the records the logger emits
logContext(logger, logs, level, msg, p) ==
    IF logger = "nil" \/ LevelRank(level) < LevelRank(logger) THEN logs
    ELSE Append(logs, [level |-> level, msg |-> msg, path |-> p])

\* ------------------------------------------------------------------ responses
NoBody == [kind |-> "none", path |-> <<>>]

\* http.FileServer(http.FS(mfilesys)).ServeHTTP for the effective path:
\* [status, body]
Response(status, kind, p) == [status |-> status, body |-> [kind |-> kind, path |-> p]]

\* serveFile once the name is opened: upath the URL path, fsname the name in
\* the file system, open the result of Open, index the directory's index page
ServeOpened(m, upath, fsname, open, index) ==
    IF HasSuffix(upath, SlashIndexHtml) THEN Response(301, "redirect", <<".", "/">>)
    ELSE IF open = "notexist" THEN Response(404, "text", <<>>)
    ELSE IF open = "invalid" THEN Response(500, "text", <<>>)
    ELSE IF MemfsIsDir(m, fsname) THEN
        IF ~HasSuffix(upath, SLASH) THEN Response(301, "redirect", fsname \o SLASH)
        ELSE IF index \in DOMAIN m /\ ~m[index].isDir THEN Response(200, "file", index)
        ELSE Response(200, "listing", fsname)
    ELSE IF HasSuffix(upath, SLASH) THEN Response(301, "redirect", fsname)
    ELSE Response(200, "file", fsname)

ServeNamed(m, upath, fsname) ==
    ServeOpened(m, upath, fsname, MemfsOpen(m, fsname),
                IF fsname = DOT THEN IndexHtml ELSE fsname \o SlashIndexHtml)

\* http.FS.Open maps "/" to "." and strips the leading slash
FSName(name) == IF name = SLASH THEN DOT ELSE TrimPrefix(name, SLASH)

ServeFile(m, upath) == ServeNamed(m, upath, FSName(Clean(upath)))

FileServer(m, url) == ServeFile(m, IF HasPrefix(url, SLASH) THEN url ELSE SLASH \o url)

\* ------------------------------------------------------------------ requests
Variants == {"ServeHTTP", "legacy", "pkg"}

\* one request being handled: its position (pc) and the locals of the handler
IdleReq ==
    [pc |-> "idle", variant |-> "none", raw |-> <<>>, cleaned |-> <<>>, url |-> <<>>,
     probe |-> "none", branch |-> "none", trace |-> <<>>, cbStatus |-> 0,
     status |-> 0, body |-> NoBody, logs |-> <<>>]

NewReq(v, raw) == [IdleReq EXCEPT !.pc = "begin", !.variant = v, !.raw = raw, !.url = raw]

\* the handler panics: no response is written; deferred calls run
Panic(r, deferred) ==
    [r EXCEPT !.pc = "done", !.branch = "panic", !.trace = r.trace \o deferred \o <<"panic">>]

\* fileServer.ServeHTTP(w, r) and return
Respond(r, f, branch, url, deferred) ==
    [r EXCEPT !.pc = "done", !.branch = branch, !.url = url,
              !.status = f.status, !.body = f.body,
              !.trace = r.trace \o <<"fileServer">> \o deferred]
Delegate(r, m, branch, url, deferred) == Respond(r, FileServer(m, url), branch, url, deferred)

\* the callback branch without its return: http.Error runs after the callback
muxErrHandlerBoth(r, hasCallback, code, branch, deferred) ==
    [r EXCEPT !.pc = "done", !.branch = branch,
              !.cbStatus = IF hasCallback THEN code ELSE 0, !.status = code,
              !.body = [kind |-> IF hasCallback THEN "custom" ELSE "text", path |-> <<>>],
              !.trace = r.trace \o (IF hasCallback THEN <<"callback">> ELSE <<>>)
                               \o <<"default">> \o deferred]

\* newMuxErrorHandler: the configured callback for the status code, else http.Error
muxErrHandler(r, hasCallback, code, branch, deferred) ==
    IF hasCallback
      THEN [r EXCEPT !.pc = "done", !.branch = branch, !.cbStatus = code, !.status = code,
                     !.body = [kind |-> "custom", path |-> <<>>],
                     !.trace = r.trace \o <<"callback">> \o deferred]
    ELSE [r EXCEPT !.pc = "done", !.branch = branch, !.status = code,
                   !.body = [kind |-> "text", path |-> <<>>],
                   !.trace = r.trace \o <<"default">> \o deferred]

\* ---------------------------------------------- StaticFilesHandler.ServeHTTP
\* lines 139-153: clean the path, strip the base path, reconstitute r.URL.Path
ServeHTTPNormalize(basePath, raw) ==
    TrimSuffix(TrimPrefix(TrimPrefix(Clean(raw), basePath), SLASH), SLASH)

\* lines 150-153: "use root path for index.html"
ServeHTTPRootRewrite(url) == IF url = IndexHtml THEN SLASH ELSE url

ServeHTTPCleaned(o, r, cleanedPath, url) ==
    [r EXCEPT !.cleaned = cleanedPath, !.url = url,
              !.logs = logContext(o.logger, r.logs, "debug", "request", cleanedPath),
              !.pc = IF url # SLASH THEN "probe" ELSE "serve"]
ServeHTTPReconstitute(o, r, cleanedPath) ==
    ServeHTTPCleaned(o, r, cleanedPath, ServeHTTPRootRewrite(SLASH \o cleanedPath))
ServeHTTPBegin(o, r) == ServeHTTPReconstitute(o, r, ServeHTTPNormalize(o.basePath, r.raw))

\* lines 157-164: open the file and close the handle at once
Opened(r, res, events) ==
    [r EXCEPT !.probe = res, !.pc = "dispatch",
              !.trace = IF res = "ok" THEN r.trace \o events ELSE r.trace]
ServeHTTPProbe(m, r) == Opened(r, MemfsOpen(m, r.cleaned), <<"open", "close">>)

\* line 159: isErr := err != nil
isErr(probe) == probe # "ok"
\* line 160: isErrNotExist := errors.Is(err, os.ErrNotExist)
\* not-found tested as "not an invalid path"
isErrNotExistLoose(probe) == probe # "invalid"

isErrNotExist(probe) == probe = "notexist"
\* line 161: isFile := path.Ext(cleanedPath) != ""
\* the extension test inverted
isFileInverted(cleanedPath) == Ext(cleanedPath) = <<>>

isFile(cleanedPath) == Ext(cleanedPath) # <<>>

\* lines 166-187
ServeHTTPDispatch(o, m, r) ==
    IF r.pc = "serve" THEN Delegate(r, m, "root", r.url, <<>>)
    ELSE IF isErr(r.probe) /\ ~isErrNotExist(r.probe) THEN
        muxErrHandler([r EXCEPT !.logs = logContext(o.logger, r.logs, "error",
                                                    "could not open file", r.cleaned)],
                      o.muxErrHandler, 500, "servererror", <<>>)
    ELSE IF isErrNotExist(r.probe) /\ isFile(r.cleaned) THEN
        muxErrHandler([r EXCEPT !.logs = logContext(o.logger, r.logs, "debug",
                                                    "not found, static file", r.cleaned)],
                      o.muxErrHandler, 404, "notfound", <<>>)
    ELSE IF isErrNotExist(r.probe) THEN
        Delegate([r EXCEPT !.logs = logContext(o.logger, r.logs, "debug",
                                               "not found, serve index", r.cleaned)],
                 m, "fallback", SLASH, <<>>)
    ELSE Delegate(r, m, "asset", r.url, <<>>)

\* ---------------------------------------------- StaticFilesHandler (legacy closure)
\* lines 124-140
LegacyBegin(o, r) ==
    IF r.raw = SLASH THEN [r EXCEPT !.pc = "serve"]
    ELSE IF Len(o.basePath) > 0 /\ ~SliceInRange(r.raw, Len(o.basePath)) THEN Panic(r, <<>>)
    ELSE [r EXCEPT !.cleaned = TrimPrefix(Clean(r.raw), o.basePath),
                   !.pc = "probe",
                   !.logs = IF Len(o.basePath) > 0 /\ SliceTo(r.raw, Len(o.basePath)) # o.basePath
                              THEN logContext(o.logger, r.logs, "info",
                                              "WARNING: base path may not be set correctly", r.raw)
                            ELSE r.logs]

\* lines 142-146: open the file; the close is deferred to the return
LegacyProbe(m, r) == Opened(r, MemfsOpen(m, r.cleaned), <<"open">>)

\* lines 148-192
\* lines 148-157: ensure the leading slash, rewrite /index.html to /
LegacyRewrite(cleanedPath) ==
    IF EnsureLeadingSlash(cleanedPath) = SlashIndexHtml THEN SLASH
    ELSE EnsureLeadingSlash(cleanedPath)

\* lines 159-192, with r.URL.Path rewritten and the deferred close pending
LegacyDecide(o, m, r, notExist, hasExt, deferred) ==
    IF r.probe # "ok" /\ ~notExist THEN
        muxErrHandler([r EXCEPT !.logs = logContext(o.logger, r.logs, "error",
                                                    "could not open file", r.cleaned)],
                      o.muxErrHandler, 500, "servererror", deferred)
    ELSE IF r.probe # "ok" /\ notExist /\ hasExt THEN
        muxErrHandler([r EXCEPT !.logs = logContext(o.logger, r.logs, "error",
                                                    "could not find file", r.cleaned)],
                      o.muxErrHandler, 404, "notfound", deferred)
    ELSE IF notExist THEN
        Delegate([r EXCEPT !.logs = logContext(o.logger, r.logs, "debug",
                                               "not found, serve index", r.cleaned)],
                 m, "fallback", SLASH, deferred)
    ELSE Delegate(r, m, "asset", r.url, deferred)

\* lines 148-192; r.URL.Path[0] is out of range when the cleaned path is empty
LegacyDispatch(o, m, r) ==
    IF r.pc = "serve" THEN Delegate(r, m, "root", r.url, <<>>)
    ELSE IF r.cleaned = <<>>
      THEN Panic([r EXCEPT !.url = <<>>], IF r.probe = "ok" THEN <<"close">> ELSE <<>>)
    ELSE LegacyDecide(o, m, [r EXCEPT !.url = LegacyRewrite(r.cleaned)],
                      isErrNotExist(r.probe), isFile(r.cleaned),
                      IF r.probe = "ok" THEN <<"close">> ELSE <<>>)

\* ---------------------------------------------- pkg.StaticFilesHandler
\* lines 64-71
PkgBegin(o, r) ==
    IF r.raw = SLASH THEN [r EXCEPT !.pc = "serve"]
    ELSE [r EXCEPT !.cleaned = TrimPrefix(Clean(r.raw), SLASH), !.pc = "probe"]

\* line 73
PkgProbe(m, r) == Opened(r, MemfsOpen(m, r.cleaned), <<"open">>)

\* lines 74-120; opts.logger is a slog.Logger value, whose zero value ("nil")
\* has no handler: Enabled dereferences it and panics
PkgDispatch(o, m, r) ==
    IF r.pc = "serve" THEN Delegate(r, m, "root", r.url, <<>>)
    ELSE IF r.probe # "ok" /\ o.logger = "nil" THEN Panic(r, <<>>)
    ELSE IF isErrNotExist(r.probe) /\ isFile(r.cleaned) THEN
        muxErrHandler([r EXCEPT !.logs = logContext(o.logger, r.logs, "error",
                                                    "could not find file", r.cleaned)],
                      o.muxErrHandler, 404, "notfound", <<>>)
    ELSE IF isErrNotExist(r.probe) THEN
        Delegate([r EXCEPT !.logs = logContext(o.logger, r.logs, "debug",
                                               "not found, serve index", r.cleaned)],
                 m, "fallback", SLASH, <<>>)
    ELSE IF r.probe # "ok" THEN
        muxErrHandler([r EXCEPT !.logs = logContext(o.logger, r.logs, "error",
                                                    "could not open file", r.cleaned)],
                      o.muxErrHandler, 500, "servererror", <<>>)
    ELSE Delegate([r EXCEPT !.trace = Append(r.trace, "close")], m, "asset", r.url, <<>>)

\* ---------------------------------------------- a request, step by step and whole
Begin(o, r) ==
    CASE r.variant = "ServeHTTP" -> ServeHTTPBegin(o, r)
      [] r.variant = "legacy" -> LegacyBegin(o, r)
      [] r.variant = "pkg" -> PkgBegin(o, r)

Probe(m, r) ==
    CASE r.variant = "ServeHTTP" -> ServeHTTPProbe(m, r)
      [] r.variant = "legacy" -> LegacyProbe(m, r)
      [] r.variant = "pkg" -> PkgProbe(m, r)

Dispatch(o, m, r) ==
    CASE r.variant = "ServeHTTP" -> ServeHTTPDispatch(o, m, r)
      [] r.variant = "legacy" -> LegacyDispatch(o, m, r)
      [] r.variant = "pkg" -> PkgDispatch(o, m, r)

\* the whole handler on one request
Continue(o, m, b) ==
    IF b.pc = "done" THEN b
    ELSE Dispatch(o, m, IF b.pc = "serve" THEN b ELSE Probe(m, b))
Handle(o, m, v, raw) == Continue(o, m, Begin(o, NewReq(v, raw)))

\* ------------------------------------------------------------------ state
VARIABLES
    filesys,    \* the source tree given to the constructor
    opts,       \* staticFilesHandlerOpts after the option functions
    ctor,       \* the construction call: entry point, position, locals, result
    mfilesys,   \* the memfs of CopyFileSys, later the handler's Snapshot; NoFS before memfs.New()
    handler,    \* the handler returned to the caller: "none" or its variant
    reqs,       \* the requests being handled, by slot
    doc         \* a call of appendToIndex's function or of findHead on its own

vars == <<filesys, opts, ctor, mfilesys, handler, reqs, doc>>

\* no such call
NoDoc == [pc |-> "none"]

Slots == 1..MaxReqs

Opts(ns, basePath, logger, cb, webEnv) ==
    [ns |-> ns, basePath |-> basePath, logger |-> logger, muxErrHandler |-> cb,
     webEnv |-> webEnv]

\* the result of an earlier CopyFileSys call on the same source, if any
NoFirst == [fs |-> NoFS, err |-> ErrNone]

\* nsArg is the namespace InjectWebEnv is called with, ns its local after the
\* trim; io lists the paths opened on the source tree, visited the entries the
\* walk function was called on, order the paths put in the Snapshot, in order;
\* run counts the CopyFileSys calls; failedAt is the first entry whose
\* processing failed (0: none) and fault the failure; steps lists the steps of
\* the injection that were executed, in order; snapshot is the *memfs.FS the
\* call returned beside its error: "none" before the return, "nil", or "mfs"
\* for the file system the walk filled
Ctor(entry, pc, ns, hook, idx, err, io) ==
    [entry |-> entry, pc |-> pc, nsArg |-> ns, ns |-> ns, hook |-> hook, idx |-> idx,
     err |-> err, io |-> io, visited |-> <<>>, order |-> <<>>, run |-> 1,
     first |-> NoFirst, failedAt |-> 0, fault |-> "none",
     steps |-> <<>>, snapshot |-> "none"]
\* return nil, err
ReturnNil(c, step, err) ==
    [c EXCEPT !.pc = "returned", !.err = err, !.steps = Append(@, step), !.snapshot = "nil"]

\* request paths: every string over PathAlphabet up to MaxPathLen, every base
\* path followed by a relative path up to MaxRelLen, and the entry document
RelPaths == Seqs(PathAlphabet, MaxRelLen) \cup {IndexHtml}
ReqPaths ==
    Seqs(PathAlphabet, MaxPathLen) \cup {b \o p : b \in BasePaths, p \in RelPaths}

\* the source I/O a fault-free construction performs
RECURSIVE WalkIO(_, _)
WalkIO(tree, i) ==
    IF i > Len(tree) THEN <<>>
    ELSE IF tree[i].isDir THEN WalkIO(tree, i + 1)
    ELSE <<tree[i].path>> \o WalkIO(tree, i + 1)

\* the paths a fault-free walk puts in the Snapshot, in order
RECURSIVE WalkOrder(_, _)
WalkOrder(tree, i) ==
    IF i > Len(tree) THEN <<>> ELSE <<tree[i].path>> \o WalkOrder(tree, i + 1)

\* ------------------------------------------------------------------ Spec
\* The handler after a successful construction, serving one request at a time.
\* pkg.StaticFilesHandler always injects and has no base path option.
InitServing ==
    \E tree \in Trees, v \in Variants, arg \in BasePathArgs, lg \in Loggers,
       cb \in BOOLEAN, env \in {"nil", "ok"} :
        LET hook == IF env = "nil" THEN NilHook
                    ELSE AppendHook(constructScriptTag(DefaultNs, env))
            built == CopyFileSys(tree, hook)
        IN  /\ v = "pkg" => (env = "ok" /\ arg = <<>>)
            /\ env # "nil" => indexExists(tree)
            /\ built.err = ErrNone
            /\ filesys = tree
            /\ opts = Opts(DefaultNs, WithBasePath(arg), lg, cb, env)
            /\ ctor = [Ctor(IF v = "ServeHTTP" THEN "NewStaticFilesHandler"
                            ELSE "StaticFilesHandler",
                            "done", DefaultNs, built.hook, Len(tree) + 1, ErrNone,
                            (IF env # "nil" THEN <<IndexHtml>> ELSE <<>>) \o WalkIO(tree, 1))
                      EXCEPT !.visited = [k \in 1..Len(tree) |-> k],
                             !.order = WalkOrder(tree, 2),
                             !.steps = IF env = "nil" THEN <<"copy">>
                                       ELSE IF v = "pkg" THEN <<"marshal", "index", "copy">>
                                       ELSE <<"namespace", "index", "marshal", "copy">>,
                             !.snapshot = "mfs"]
            /\ mfilesys = built.fs
            /\ handler = v
            /\ doc = NoDoc

Init ==
    /\ InitServing
    /\ reqs = [i \in Slots |-> IdleReq]

\* w and r are the handler's parameters: what a request writes (r.URL.Path,
\* the response) is its own
\* the rewritten path kept in one place for all requests in flight
UpdateReqSharedPath(rs, i, r) ==
    [j \in DOMAIN rs |->
        IF j = i THEN r
        ELSE IF rs[j].pc \in {"idle", "done"} THEN rs[j]
        ELSE [rs[j] EXCEPT !.url = r.url]]

UpdateReq(rs, i, r) == [rs EXCEPT ![i] = r]

\* StaticFilesHandler.ServeHTTP on one request, start to return
ServeHTTP(raw) ==
    /\ handler = "ServeHTTP"
    /\ reqs[1].pc = "idle"
    /\ reqs' = UpdateReq(reqs, 1, Handle(opts, mfilesys, "ServeHTTP", raw))
    /\ UNCHANGED <<doc, filesys, opts, ctor, mfilesys, handler>>

\* the closure returned by StaticFilesHandler (src/staticFileServerHandler.go)
LegacyServe(raw) ==
    /\ handler = "legacy"
    /\ reqs[1].pc = "idle"
    /\ reqs' = UpdateReq(reqs, 1, Handle(opts, mfilesys, "legacy", raw))
    /\ UNCHANGED <<doc, filesys, opts, ctor, mfilesys, handler>>

\* the closure returned by pkg.StaticFilesHandler
PkgServe(raw) ==
    /\ handler = "pkg"
    /\ reqs[1].pc = "idle"
    /\ reqs' = UpdateReq(reqs, 1, Handle(opts, mfilesys, "pkg", raw))
    /\ UNCHANGED <<doc, filesys, opts, ctor, mfilesys, handler>>

\* the handler has returned and the response is sent: the slot is free again
Finish(i) ==
    /\ reqs[i].pc = "done"
    /\ reqs' = [reqs EXCEPT ![i] = IdleReq]
    /\ UNCHANGED <<doc, filesys, opts, ctor, mfilesys, handler>>

Next ==
    \/ \E raw \in ReqPaths : ServeHTTP(raw)
    \/ \E raw \in ReqPaths : LegacyServe(raw)
    \/ \E raw \in ReqPaths : PkgServe(raw)
    \/ Finish(1)

Spec == Init /\ [][Next]_vars

\* ------------------------------------------------------------------ SpecConc
\* Requests handled concurrently: each slot advances through the handler's
\* steps (normalize, probe, dispatch) interleaved with the other slots.
ConcPaths ==
    {SLASH, SLASH \o FileAA, SLASH \o FileInA, SLASH \o DirA, SlashIndexHtml,
     <<".", ".", "/", "a">>, <<"/", "/">>}

InitConc ==
    /\ InitServing
    /\ handler \in {"ServeHTTP", "legacy"}
    /\ filesys \in {TreeSite, TreeNested}
    /\ opts.logger = "debug" /\ opts.webEnv = "nil" /\ ~opts.muxErrHandler
    /\ Len(opts.basePath) <= 3
    /\ reqs = [i \in Slots |-> IdleReq]

\* the server calls the handler with a new request
Receive(i, raw) ==
    /\ reqs[i].pc = "idle"
    /\ reqs' = UpdateReq(reqs, i, NewReq(handler, raw))
    /\ UNCHANGED <<doc, filesys, opts, ctor, mfilesys, handler>>

StepBegin(i) ==
    /\ reqs[i].pc = "begin"
    /\ reqs' = UpdateReq(reqs, i, Begin(opts, reqs[i]))
    /\ UNCHANGED <<doc, filesys, opts, ctor, mfilesys, handler>>

StepProbe(i) ==
    /\ reqs[i].pc = "probe"
    /\ reqs' = UpdateReq(reqs, i, Probe(mfilesys, reqs[i]))
    /\ UNCHANGED <<doc, filesys, opts, ctor, mfilesys, handler>>

StepDispatch(i) ==
    /\ reqs[i].pc \in {"serve", "dispatch"}
    /\ reqs' = UpdateReq(reqs, i, Dispatch(opts, mfilesys, reqs[i]))
    /\ UNCHANGED <<doc, filesys, opts, ctor, mfilesys, handler>>

NextConc ==
    \E i \in Slots :
        \/ \E raw \in ConcPaths : Receive(i, raw)
        \/ StepBegin(i)
        \/ StepProbe(i)
        \/ StepDispatch(i)
        \/ Finish(i)

SpecConc == InitConc /\ [][NextConc]_vars

\* ------------------------------------------------------------------ SpecCtor
\* Construction step by step: NewStaticFilesHandler / StaticFilesHandler, a
\* direct call of InjectWebEnv, or direct calls of CopyFileSys; then requests
\* on the returned handler.
NsInputs == Seqs(NsAlphabet, MaxNsLen)
Entries ==
    {"NewStaticFilesHandler", "StaticFilesHandler", "InjectWebEnv", "InjectWindowVars",
     "CopyFileSys"}
CtorPaths == {SLASH, SLASH \o FileAA, SlashIndexHtml, SLASH \o DirA}
VariantOf(entry) == IF entry = "NewStaticFilesHandler" THEN "ServeHTTP" ELSE "legacy"
\* the hooks CopyFileSys is called with directly
DirectHooks == {NilHook, UserHook, AppendHook(constructScriptTag(<<"a">>, "ok"))}

\* the injection functions, called on their own
Injections == {"InjectWebEnv", "InjectWindowVars"}
\* where a call starts
FirstStep(entry) ==
    IF entry = "InjectWebEnv" THEN "validate"
    ELSE IF entry = "InjectWindowVars" THEN "pkgMarshal"
    ELSE "start"

InitCopy ==
    \E tree \in Trees, hook \in DirectHooks :
        /\ filesys = tree
        /\ opts = Opts(DefaultNs, DefaultBasePath, "nil", FALSE, "nil")
        /\ ctor = [Ctor("CopyFileSys", "walk", <<>>, hook, 1, ErrNone, <<>>)
                     EXCEPT !.steps = <<"copy">>]
        /\ mfilesys = MemfsNew
        /\ handler = "none"
        /\ reqs = [i \in Slots |-> IdleReq]
        /\ doc = NoDoc

InitConstruct ==
    \E tree \in Trees, entry \in Entries \ {"CopyFileSys"}, env \in {"nil", "ok", "bad"},
       nsarg \in NsInputs :
        /\ (entry \notin Injections /\ env = "nil") => nsarg = <<>>
        /\ filesys = tree
        /\ opts = Opts(IF entry \notin Injections /\ env # "nil" THEN WithInjectWebEnvNs(nsarg)
                       ELSE DefaultNs,
                       DefaultBasePath, "nil", FALSE, env)
        /\ ctor = Ctor(entry, FirstStep(entry), nsarg, NilHook, 1, ErrNone, <<>>)
        /\ mfilesys = NoFS
        /\ handler = "none"
        /\ reqs = [i \in Slots |-> IdleReq]
        /\ doc = NoDoc

InitCtor == InitConstruct \/ InitCopy

\* NewStaticFilesHandler lines 103-118: the options are processed; InjectWebEnv
\* is called when a web environment is given, CopyFileSys(filesys, nil) otherwise
ProcessOptions ==
    /\ ctor.pc = "start"
    /\ IF opts.webEnv # "nil"
         THEN /\ ctor' = [ctor EXCEPT !.pc = "validate", !.nsArg = opts.ns, !.ns = opts.ns]
              /\ UNCHANGED mfilesys
       ELSE /\ ctor' = [ctor EXCEPT !.pc = "walk", !.steps = Append(@, "copy")]
            /\ mfilesys' = MemfsNew
    /\ UNCHANGED <<doc, filesys, opts, handler, reqs>>

\* InjectWebEnv lines 23-29
ValidateNamespace ==
    /\ ctor.pc = "validate"
    /\ ctor' = IF NamespaceCheck(ctor.ns) # ErrNone
                 THEN ReturnNil(ctor, "namespace", NamespaceCheck(ctor.ns))
               ELSE [ctor EXCEPT !.pc = "index", !.ns = TrimSpace(ctor.ns),
                                 !.steps = Append(@, "namespace")]
    /\ UNCHANGED <<doc, filesys, opts, mfilesys, handler, reqs>>

\* InjectWebEnv lines 31-33: indexExists opens index.html on the source
CheckIndex ==
    /\ ctor.pc = "index"
    /\ ctor' = IF indexExists(filesys)
                 THEN [ctor EXCEPT !.pc = "script", !.io = Append(ctor.io, IndexHtml),
                                   !.steps = Append(@, "index")]
               ELSE ReturnNil([ctor EXCEPT !.io = Append(ctor.io, IndexHtml)],
                              "index", ErrNoIndexFound)
    /\ UNCHANGED <<doc, filesys, opts, mfilesys, handler, reqs>>

\* InjectWebEnv lines 35-40: constructScriptTag, then CopyFileSys with the hook
ConstructScriptTag ==
    /\ ctor.pc = "script"
    /\ IF constructScriptTagErr(opts.webEnv) # ErrNone
         THEN /\ ctor' = ReturnNil(ctor, "marshal", constructScriptTagErr(opts.webEnv))
              /\ UNCHANGED mfilesys
       ELSE /\ ctor' = [ctor EXCEPT !.pc = "walk", !.steps = @ \o <<"marshal", "copy">>,
                          !.hook = AppendHook(constructScriptTag(ctor.ns, opts.webEnv))]
            /\ mfilesys' = MemfsNew
    /\ UNCHANGED <<doc, filesys, opts, handler, reqs>>

\* InjectWindowVars lines 24-40: trim the namespace, marshal the
\* configuration, build the script element
PkgMarshal ==
    /\ ctor.pc = "pkgMarshal"
    /\ ctor' = IF constructScriptTagErr(opts.webEnv) # ErrNone
                 THEN ReturnNil(ctor, "marshal", constructScriptTagErr(opts.webEnv))
               ELSE [ctor EXCEPT !.pc = "pkgIndex", !.ns = TrimSpace(ctor.ns),
                                 !.steps = Append(@, "marshal"),
                                 !.hook = Hook("InjectWindowVars",
                                               constructScriptTag(TrimSpace(ctor.ns), opts.webEnv),
                                               FALSE)]
    /\ UNCHANGED <<doc, filesys, opts, mfilesys, handler, reqs>>

\* InjectWindowVars lines 42-49: open index.html on the source, then memfs.New
PkgCheckIndex ==
    /\ ctor.pc = "pkgIndex"
    /\ IF indexExists(filesys)
         THEN /\ ctor' = [ctor EXCEPT !.pc = "walk", !.io = Append(ctor.io, IndexHtml),
                                      !.steps = @ \o <<"index", "copy">>]
              /\ mfilesys' = MemfsNew
       ELSE /\ ctor' = ReturnNil([ctor EXCEPT !.io = Append(ctor.io, IndexHtml)], "index",
                                 errorsJoin(ErrNoIndexFound, SourceError))
            /\ UNCHANGED mfilesys
    /\ UNCHANGED <<doc, filesys, opts, handler, reqs>>

\* the source paths an entry's processing opens
OpensOf(e, fault) == IF e.isDir THEN <<>> ELSE <<e.path>>

\* the paths the walk function added to the Snapshot, parents first
RECURSIVE Added(_, _, _)
Added(before, after, p) ==
    IF p = DOT \/ p \notin DOMAIN after \/ p \in DOMAIN before THEN <<>>
    ELSE Append(Added(before, after, Dir(p)), p)

\* the walk function has been called on entry c.idx
Called(c, e, r, before, fault) ==
    [c EXCEPT !.io = c.io \o OpensOf(e, fault), !.visited = Append(c.visited, c.idx),
              !.order = c.order \o Added(before, r.fs, e.path), !.hook = r.hook,
              !.failedAt = IF fault # "none" /\ @ = 0 THEN c.idx ELSE @,
              !.fault = IF fault # "none" /\ c.failedAt = 0 THEN fault ELSE @]

\* fs.WalkDir on what the function returned: nil continues, fs.SkipDir skips
\* the rest of the directory, fs.SkipAll ends the walk with no error, any
\* other error ends it and is returned; a panic unwinds the call
WalkResult(c, tree, e, r) ==
    IF r.err = ErrNone THEN [c EXCEPT !.idx = c.idx + 1]
    ELSE IF r.err = SkipDir THEN [c EXCEPT !.idx = SkipRest(tree, c.idx + 1, Dir(e.path))]
    ELSE IF r.err = SkipAll THEN [c EXCEPT !.pc = "returned", !.snapshot = "mfs"]
    ELSE IF r.err = PanicAttached THEN [c EXCEPT !.pc = "panic"]
    ELSE [c EXCEPT !.pc = "returned", !.err = r.err, !.snapshot = "mfs"]

FaultApplies(e, hook, fault) ==
    /\ fault = "walk" => e.isDir
    /\ fault \in {"open", "read"} => ~e.isDir
    /\ fault \in HookFaults => (~e.isDir /\ hook.kind = "user")

\* CopyFileSys lines 17-57: fs.WalkDir calls the function on the next entry
WalkEntry(fault) ==
    /\ ctor.pc = "walk"
    /\ ctor.idx <= Len(filesys)
    /\ FaultApplies(filesys[ctor.idx], ctor.hook, fault)
    /\ ctor' = WalkResult(Called(ctor, filesys[ctor.idx],
                                 WalkFn(mfilesys, filesys[ctor.idx], ctor.hook, fault),
                                 mfilesys, fault),
                          filesys, filesys[ctor.idx],
                          WalkFn(mfilesys, filesys[ctor.idx], ctor.hook, fault))
    /\ mfilesys' = WalkFn(mfilesys, filesys[ctor.idx], ctor.hook, fault).fs
    /\ UNCHANGED <<doc, filesys, opts, handler, reqs>>

\* CopyFileSys line 59: the walk is over, return mfs, err
CopyReturn ==
    /\ ctor.pc = "walk"
    /\ ctor.idx > Len(filesys)
    /\ ctor' = [ctor EXCEPT !.pc = "returned", !.snapshot = "mfs"]
    /\ UNCHANGED <<doc, filesys, opts, mfilesys, handler, reqs>>

\* the caller runs CopyFileSys a second time on the same source with the same
\* hook value
CopyAgain ==
    /\ ctor.pc = "returned"
    /\ ctor.entry = "CopyFileSys"
    /\ ctor.run = 1
    /\ ctor.failedAt = 0
    /\ ctor' = [ctor EXCEPT !.pc = "walk", !.run = 2, !.idx = 1, !.err = ErrNone,
                            !.io = <<>>, !.visited = <<>>, !.order = <<>>, !.snapshot = "none",
                            !.first = [fs |-> mfilesys, err |-> ctor.err]]
    /\ mfilesys' = MemfsNew
    /\ UNCHANGED <<doc, filesys, opts, handler, reqs>>

\* the error of the snapshot construction ignored
ConstructionNeverFailed(err) == FALSE

\* NewStaticFilesHandler lines 119-121: if err != nil { return nil, err }
ConstructionFailed(err) == err # ErrNone

\* NewStaticFilesHandler lines 119-134: return the error, or the handler
ReturnHandler ==
    /\ ctor.pc = "returned"
    /\ ctor.entry \in {"NewStaticFilesHandler", "StaticFilesHandler"}
    /\ IF ConstructionFailed(ctor.err)
         THEN /\ ctor' = [ctor EXCEPT !.pc = "failed"]
              /\ UNCHANGED handler
       ELSE /\ ctor' = [ctor EXCEPT !.pc = "done"]
            /\ handler' = VariantOf(ctor.entry)
    /\ UNCHANGED <<doc, filesys, opts, mfilesys, reqs>>

\* a request on the handler the constructor returned
Serve(raw) ==
    /\ handler # "none"
    /\ reqs[1].pc = "idle"
    /\ reqs' = UpdateReq(reqs, 1, Handle(opts, mfilesys, handler, raw))
    /\ UNCHANGED <<doc, filesys, opts, ctor, mfilesys, handler>>

NextCtor ==
    \/ ProcessOptions
    \/ ValidateNamespace
    \/ CheckIndex
    \/ ConstructScriptTag
    \/ PkgMarshal
    \/ PkgCheckIndex
    \/ \E fault \in SourceFaults \cup HookFaults : WalkEntry(fault)
    \/ CopyReturn
    \/ CopyAgain
    \/ ReturnHandler
    \/ \E raw \in CtorPaths : Serve(raw)
    \/ Finish(1)

SpecCtor == InitCtor /\ [][NextCtor]_vars

\* ------------------------------------------------------------------ SpecDoc
\* The function appendToIndex returns, and findHead, called on their own: on
\* every document up to MaxDocLen tokens, and on node trees built by hand (as
\* the tests build them) with up to MaxKids subtrees under the root.
DocAlphabet ==
    {<<"<head>">>, <<"</head>">>, <<"<meta>">>, <<"<body>">>, <<"x">>, <<"<br>">>}
DocInputs == Seqs(DocAlphabet, MaxDocLen)
ValidNs == {<<"a">>, <<"_", "1">>}
HookPaths == {IndexHtml, FileAA, IndexInA}
Subtrees ==
    {Element("head", <<>>), Element("body", <<>>), Element("div", <<>>),
     Element("div", <<Element("head", <<>>)>>), Element("body", <<Element("head", <<>>)>>)}
HandTrees == {Element("html", kids) : kids \in Seqs(Subtrees, MaxKids)}

DocCall(fn, path, bytes, ns, conf, tree) ==
    [pc |-> "call", fn |-> fn, path |-> path, bytes |-> bytes, ns |-> ns, conf |-> conf,
     hook |-> IF fn = "appendToIndex" THEN AppendHook(constructScriptTag(ns, conf)) ELSE NilHook,
     tree |-> tree, data |-> <<>>, err |-> ErrNone, found |-> NotFound]

InitDoc ==
    /\ filesys = TreeSite
    /\ opts = Opts(DefaultNs, DefaultBasePath, "nil", FALSE, "nil")
    /\ ctor = Ctor("none", "none", <<>>, NilHook, 1, ErrNone, <<>>)
    /\ mfilesys = NoFS
    /\ handler = "none"
    /\ reqs = [i \in Slots |-> IdleReq]
    /\ \/ \E bytes \in DocInputs, ns \in ValidNs, conf \in {"nil", "ok"}, path \in HookPaths :
            doc = DocCall("appendToIndex", path, bytes, ns, conf, Parse(bytes))
       \/ \E tree \in HandTrees :
            doc = DocCall("findHead", <<>>, <<>>, <<>>, "nil", tree)

Returned(d, r) ==
    [d EXCEPT !.pc = "returned", !.data = r.data, !.err = r.err, !.hook = r.hook]

\* appendToIndex(t)(p, d)
CallAppendToIndex ==
    /\ doc.pc = "call" /\ doc.fn = "appendToIndex"
    /\ doc' = Returned(doc, appendToIndex(doc.hook, doc.path, doc.bytes))
    /\ UNCHANGED <<filesys, opts, ctor, mfilesys, handler, reqs>>

\* findHead(n)
CallFindHead ==
    /\ doc.pc = "call" /\ doc.fn = "findHead"
    /\ doc' = [doc EXCEPT !.pc = "returned", !.found = findHead(doc.tree)]
    /\ UNCHANGED <<filesys, opts, ctor, mfilesys, handler, reqs>>

NextDoc == CallAppendToIndex \/ CallFindHead

SpecDoc == InitDoc /\ [][NextDoc]_vars

\* ------------------------------------------------------------------ properties
\* the responders that wrote to the response, in order
IsResponder(e) == e \in {"callback", "default", "fileServer"}
Responders(r) == SelectSeq(r.trace, IsResponder)
Occurs(r, e) == \E k \in 1..Len(r.trace) : r.trace[k] = e

\* the hook as it was before it ran
Detached(h) == [h EXCEPT !.attached = FALSE]

Done(i, v) == reqs[i].pc = "done" /\ reqs[i].variant = v
HasEntryDocument == IndexHtml \in DOMAIN mfilesys /\ ~mfilesys[IndexHtml].isDir
EntryDocument200(r) == r.status = 200 /\ r.body = [kind |-> "file", path |-> IndexHtml]

\* C1 as stated: ServeHTTP, probe not found: with an extension 404 through the
\* error handler and no delegation; without one the path is rewritten to root,
\* the request is delegated and answered with the entry document, status 200.
C1_AsStated ==
    \A i \in Slots :
        (Done(i, "ServeHTTP") /\ reqs[i].probe = "notexist") =>
            IF Ext(reqs[i].cleaned) # <<>>
              THEN /\ reqs[i].status = 404
                   /\ Len(Responders(reqs[i])) = 1
                   /\ ~Occurs(reqs[i], "fileServer")
              ELSE /\ reqs[i].url = SLASH
                   /\ Responders(reqs[i]) = <<"fileServer">>
                   /\ EntryDocument200(reqs[i])

\* C1 amended: as C1, the answer to the delegated request being the entry
\* document when the Snapshot has a root index.html, and otherwise the listing
\* of the root directory; status 200 either way.
C1_NotFoundDecidedByExtension ==
    \A i \in Slots :
        (Done(i, "ServeHTTP") /\ reqs[i].probe = "notexist") =>
            IF Ext(reqs[i].cleaned) # <<>>
              THEN /\ reqs[i].status = 404
                   /\ reqs[i].branch = "notfound"
                   /\ Len(Responders(reqs[i])) = 1
                   /\ ~Occurs(reqs[i], "fileServer")
              ELSE /\ reqs[i].url = SLASH
                   /\ reqs[i].branch = "fallback"
                   /\ Responders(reqs[i]) = <<"fileServer">>
                   /\ reqs[i].status = 200
                   /\ IF HasEntryDocument THEN EntryDocument200(reqs[i])
                      ELSE reqs[i].body = [kind |-> "listing", path |-> DOT]

C1_Witness ==
    /\ Done(1, "ServeHTTP") /\ reqs[1].probe = "notexist"
    /\ Ext(reqs[1].cleaned) = <<>>
    /\ opts.basePath # SLASH
    /\ EntryDocument200(reqs[1])

C3_IndexTreatedAsRoot ==
    \A i \in Slots :
        (Done(i, "ServeHTTP") /\ reqs[i].cleaned \in {<<>>, IndexHtml}) =>
            /\ reqs[i].url = SLASH
            /\ reqs[i].probe = "none"
            /\ Responders(reqs[i]) = <<"fileServer">>
            /\ reqs[i].body.kind # "redirect"

\* C4: in each of the three handlers, a probe that fails with an error other
\* than not-found ends in status 500 through the error handler, with no
\* delegation and no fallback.
C4_OtherErrorIsServerError ==
    \A i \in Slots :
        (reqs[i].pc = "done" /\ reqs[i].probe = "invalid") =>
            /\ reqs[i].branch = "servererror"
            /\ reqs[i].status = 500
            /\ Len(Responders(reqs[i])) = 1
            /\ ~Occurs(reqs[i], "fileServer")

\* C5, first half: WithBasePath gives the same prefix for an argument with or
\* without leading and trailing slash; it begins and ends with "/".
WithBasePathNormalizes ==
    /\ opts.basePath[1] = "/" /\ opts.basePath[Len(opts.basePath)] = "/"
    /\ \A a \in BasePathArgs :
        /\ WithBasePath(a) = WithBasePath(SLASH \o a) \/ HasPrefix(a, SLASH) \/ a = <<>>
        /\ WithBasePath(a) = WithBasePath(a \o SLASH) \/ HasSuffix(a, SLASH) \/ a = <<>>

\* what a request resolves to: the probe, the branch and the response
Outcome(branch) ==
    CASE branch = "asset" -> "ServeAsset"
      [] branch \in {"root", "fallback"} -> "ServeEntryDocument"
      [] branch = "notfound" -> "NotFound"
      [] branch = "servererror" -> "ServerError"
      [] OTHER -> branch
Resolution(r) ==
    [probed |-> IF r.probe = "none" THEN <<"none">> ELSE <<r.probe, r.cleaned>>,
     outcome |-> Outcome(r.branch), status |-> r.status, body |-> r.body]
DefaultOpts(o) == [o EXCEPT !.basePath = DefaultBasePath]

\* C5: ServeHTTP under base path B, request B ++ p: the same probe and the same
\* outcome as the request "/" ++ p under the default base path.
C5_BasePathStripped ==
    /\ WithBasePathNormalizes
    /\ \A i \in Slots : \A p \in RelPaths :
        (Done(i, "ServeHTTP") /\ reqs[i].raw = opts.basePath \o p) =>
            Resolution(reqs[i]) =
                Resolution(Handle(DefaultOpts(opts), mfilesys, "ServeHTTP", SLASH \o p))

\* C6: ServeHTTP: a NotFound or ServerError outcome is written by exactly one
\* responder, the callback with the outcome's status code when one is
\* configured and http.Error with that status otherwise; the callback is not
\* invoked for ServeAsset and ServeEntryDocument.
C6_OneErrorResponder ==
    \A i \in Slots :
        Done(i, "ServeHTTP") =>
            IF reqs[i].branch \in {"notfound", "servererror"}
              THEN /\ reqs[i].status = (IF reqs[i].branch = "notfound" THEN 404 ELSE 500)
                   /\ IF opts.muxErrHandler
                        THEN Responders(reqs[i]) = <<"callback">>
                             /\ reqs[i].cbStatus = reqs[i].status
                      ELSE Responders(reqs[i]) = <<"default">> /\ reqs[i].cbStatus = 0
                           /\ reqs[i].body.kind = "text"
              ELSE /\ reqs[i].branch \in {"asset", "root", "fallback"}
                   /\ ~Occurs(reqs[i], "callback")
                   /\ reqs[i].cbStatus = 0

C6_Witness ==
    /\ Done(1, "ServeHTTP") /\ reqs[1].branch = "servererror"
    /\ opts.muxErrHandler /\ reqs[1].cbStatus = 500

\* C7: the legacy closure ends every request in one of the four outcomes with
\* a response written, and never panics.
C7_LegacyNeverPanics ==
    \A i \in Slots :
        Done(i, "legacy") =>
            /\ reqs[i].branch \in {"root", "asset", "fallback", "notfound", "servererror"}
            /\ reqs[i].status # 0
            /\ Len(Responders(reqs[i])) = 1

\* C8: request handling writes neither the Snapshot nor the options: under any
\* interleaving of concurrent requests the Snapshot is the one the construction
\* built, and a finished request has, field by field, the result of handling
\* it alone.
C8_RequestsIsolated ==
    /\ [](/\ mfilesys = CopyFileSys(filesys, Detached(ctor.hook)).fs
          /\ \A i \in Slots :
                reqs[i].pc = "done" =>
                    reqs[i] = Handle(opts, mfilesys, reqs[i].variant, reqs[i].raw))
    /\ [][mfilesys' = mfilesys /\ opts' = opts /\ filesys' = filesys]_vars

\* two requests in flight at once, one rewritten to root by the fallback, the
\* other one delegated with its own path
C8_Witness ==
    /\ reqs[1].pc = "done" /\ reqs[1].branch = "fallback" /\ reqs[1].url = SLASH
    /\ reqs[2].pc = "done" /\ reqs[2].branch = "asset"
    /\ reqs[2].url = SLASH \o FileAA /\ reqs[2].body = [kind |-> "file", path |-> FileAA]

\* C9: a handler exists only once the construction is over with no error and
\* the Snapshot is the complete copy of the source (with the rewritten entry
\* document when a web environment is injected); a failed construction leaves
\* no handler, and a request is only ever resolved on a handler.
C9_HandlerAfterCompleteSnapshot ==
    /\ handler # "none" =>
          /\ ctor.pc = "done" /\ ctor.err = ErrNone
          /\ ctor.idx = Len(filesys) + 1
          /\ CopyFileSys(filesys, Detached(ctor.hook)).err = ErrNone
          /\ mfilesys = CopyFileSys(filesys, Detached(ctor.hook)).fs
          /\ (ctor.hook.kind = "appendToIndex") = (opts.webEnv # "nil")
    /\ (ctor.err # ErrNone \/ ctor.pc = "failed") => handler = "none"
    /\ \A i \in Slots : reqs[i].pc # "idle" => handler # "none"

C9_Witness ==
    /\ handler = "ServeHTTP" /\ ctor.hook.kind = "appendToIndex"
    /\ mfilesys[IndexHtml].data # filesys[Len(filesys)].data
    /\ reqs[1].pc = "done" /\ EntryDocument200(reqs[1])

\* a namespace the claim calls invalid: empty, a character outside
\* [A-Za-z0-9_], or a digit first
InvalidNamespace(ns) ==
    \/ ns = <<>>
    \/ \E k \in 1..Len(ns) : ns[k] \notin Letters \cup Digits \cup {"_"}
    \/ ns[1] \in Digits
Validated ==
    /\ ctor.pc \notin {"start", "validate"}
    /\ \/ ctor.entry = "InjectWebEnv"
       \/ (ctor.entry \in {"NewStaticFilesHandler", "StaticFilesHandler"} /\ opts.webEnv # "nil")
Rejected == ctor.err \in {ErrNoNamespace, ErrCouldNotParseNamespace}
NoSideEffects == ctor.io = <<>> /\ mfilesys = NoFS /\ handler = "none"

\* C10 as stated: InjectWebEnv rejects the empty namespace and every namespace
\* with a character outside [A-Za-z0-9_] or a digit first, with no source path
\* opened and no Snapshot created.
C10_AsStated ==
    Validated =>
        /\ InvalidNamespace(ctor.nsArg) => Rejected
        /\ Rejected => NoSideEffects

\* C10 amended: InjectWebEnv rejects the empty namespace and every namespace
\* that, with its surrounding whitespace trimmed, is empty, has a character
\* outside [A-Za-z0-9_] or a digit first, and accepts every other one; on
\* rejection no source path was opened and no Snapshot created.
C10_NamespaceValidatedFirst ==
    Validated =>
        /\ Rejected <=> (ctor.nsArg = <<>> \/ InvalidNamespace(TrimSpace(ctor.nsArg)))
        /\ ctor.nsArg = <<>> => ctor.err = ErrNoNamespace
        /\ Rejected => NoSideEffects

C10_Witness ==
    /\ ctor.entry = "InjectWebEnv" /\ ctor.pc = "returned"
    /\ ctor.nsArg = <<"1", "a">>
    /\ ctor.err = ErrCouldNotParseNamespace
    /\ NoSideEffects /\ indexExists(filesys)

\* the construction call is over
CallOver ==
    IF ctor.entry \in {"NewStaticFilesHandler", "StaticFilesHandler"}
      THEN ctor.pc \in {"failed", "done", "panic"}
    ELSE ctor.pc \in {"returned", "panic"}
\* the source tree has no index.html at its root
NoRootIndex == \A i \in 1..Len(filesys) : filesys[i].path # IndexHtml
\* the call is InjectWebEnv, or a handler construction that injects
Injects == ctor.entry = "InjectWebEnv" \/ (ctor.entry \in {"NewStaticFilesHandler", "StaticFilesHandler"} /\ opts.webEnv # "nil")
HandlerEntry == ctor.entry \in {"NewStaticFilesHandler", "StaticFilesHandler"}

\* C11 as stated: on a source tree with no root index.html, InjectWebEnv fails
\* with ErrNoIndexFound and no Snapshot, and the handler construction fails
\* with that error under any options.
C11_AsStated ==
    (NoRootIndex /\ CallOver) =>
        /\ ctor.entry = "InjectWebEnv" => (errorsIs(ctor.err, ErrNoIndexFound) /\ mfilesys = NoFS)
        /\ HandlerEntry => (handler = "none" /\ errorsIs(ctor.err, ErrNoIndexFound))

\* C11 amended: on a source tree with no root index.html, InjectWebEnv called
\* with a namespace that passes its checks fails with ErrNoIndexFound and
\* builds no Snapshot (an invalid namespace is reported first), and so does a
\* handler construction that injects a web environment; a construction that
\* injects none does not look for index.html and never reports that error.
C11_MissingIndexFailsInjection ==
    (NoRootIndex /\ CallOver) =>
        /\ (Injects /\ NamespaceCheck(ctor.nsArg) = ErrNone) =>
              /\ ctor.err = ErrNoIndexFound
              /\ mfilesys = NoFS /\ handler = "none" /\ ctor.visited = <<>>
        /\ (Injects /\ NamespaceCheck(ctor.nsArg) # ErrNone) =>
              ctor.err = NamespaceCheck(ctor.nsArg)
        /\ (HandlerEntry /\ opts.webEnv = "nil") =>
              /\ ~errorsIs(ctor.err, ErrNoIndexFound)
              /\ (ctor.failedAt = 0 => handler # "none")

C11_Witness ==
    /\ ctor.entry = "NewStaticFilesHandler" /\ ctor.pc = "failed"
    /\ opts.webEnv = "ok" /\ filesys = TreeNoIndex
    /\ ctor.err = ErrNoIndexFound /\ mfilesys = NoFS

HeadKidsOf(d) == Parse(d).kids[1].kids[1].kids
BodyOf(d) == Parse(d).kids[1].kids[2]
\* the JSON text of the configurations of the model
JsonText(conf) == IF conf = "nil" THEN "null" ELSE "{}"
\* the script element the claim describes
ExpectedScript(ns, conf) ==
    [tag |-> "script", text |-> <<>>,
     kids |-> <<[tag |-> "#text", text |-> <<"window.">> \o ns \o <<" = ", JsonText(conf), ";">>,
                 kids |-> <<>>]>>]
AppendedToIndex == doc.pc = "returned" /\ doc.fn = "appendToIndex" /\ doc.path = IndexHtml

\* C13: for a valid namespace and an entry document with a head, the entry
\* document the hook returns has, as first child of its head, one script
\* element whose text is exactly "window.<ns> = <json(config)>;", followed by
\* the original children of the head in their order; the body is as it was.
C13_ScriptFirstInHead ==
    AppendedToIndex =>
        /\ doc.err = ErrNone
        /\ Parse(doc.bytes).kids[1].kids[1].tag = "head"
        /\ HeadKidsOf(doc.data) = <<ExpectedScript(doc.ns, doc.conf)>> \o HeadKidsOf(doc.bytes)
        /\ BodyOf(doc.data) = BodyOf(doc.bytes)
        /\ Len(Parse(doc.data).kids[1].kids) = 2

C13_Witness ==
    /\ AppendedToIndex /\ doc.err = ErrNone
    /\ doc.bytes = <<<<"<head>">>, <<"<meta>">>, <<"<br>">>>>
    /\ doc.ns = <<"_", "1">> /\ doc.conf = "ok"
    /\ doc.data = <<<<"<html>">>, <<"<head>">>,
                    <<"<script>", "window.", "_", "1", " = ", "{}", ";", "</script>">>,
                    <<"<meta>">>, <<"</head>">>, <<"<body>">>, <<"<br>">>, <<"</body>">>, <<"</html>">>>>

\* an injection whose checks passed and whose walk met no failure
InjectionRan ==
    /\ Injects /\ CallOver /\ opts.webEnv # "bad" /\ ctor.failedAt = 0
    /\ NamespaceCheck(ctor.nsArg) = ErrNone /\ ~NoRootIndex
\* the file of the source at entry i is in the Snapshot with the same bytes
SameBytes(i) ==
    /\ filesys[i].path \in DOMAIN mfilesys
    /\ ~mfilesys[filesys[i].path].isDir
    /\ mfilesys[filesys[i].path].data = filesys[i].data
\* what the hook (as it was before the walk) returns for the file at entry i
HookOn(i) == appendToIndex(Detached(ctor.hook), filesys[i].path, filesys[i].data)

\* C14: a successful InjectWebEnv transforms exactly the root index.html:
\* every other file of the source, an index.html in a subdirectory included,
\* is in the Snapshot byte for byte, the hook returning its bytes untouched;
\* and an injection whose checks pass and whose walk meets no failure is
\* successful.
C14_OnlyRootIndexTransformed ==
    InjectionRan =>
        /\ ctor.pc # "panic" /\ ctor.err = ErrNone
        /\ \A i \in 1..Len(filesys) :
              (~filesys[i].isDir /\ filesys[i].path # IndexHtml) =>
                 /\ SameBytes(i)
                 /\ HookOn(i).data = filesys[i].data /\ HookOn(i).err = ErrNone
        /\ \A i \in 1..Len(filesys) :
              filesys[i].path = IndexHtml =>
                 /\ mfilesys[IndexHtml].data # filesys[i].data
                 /\ mfilesys[IndexHtml].data = HookOn(i).data

C14_Witness ==
    /\ ctor.entry = "InjectWebEnv" /\ ctor.pc = "returned" /\ ctor.err = ErrNone
    /\ filesys = TreeNested /\ ctor.hook.kind = "appendToIndex"
    /\ mfilesys[IndexInA].data = DocHead
    /\ mfilesys[IndexHtml].data # DocHead

\* the nodes of a tree in depth-first order, each with its position
RECURSIVE Preorder(_, _)
RECURSIVE PreorderKids(_, _, _)
PreorderKids(kids, pos, k) ==
    IF k > Len(kids) THEN <<>>
    ELSE Preorder(kids[k], Append(pos, k)) \o PreorderKids(kids, pos, k + 1)
Preorder(n, pos) == <<[pos |-> pos, tag |-> n.tag]>> \o PreorderKids(n.kids, pos, 1)
IsHeadOrBody(v) == v.tag \in {"head", "body"}
\* the first head in depth-first order, unless a body comes before any head
FirstHeadBeforeBody(marks) ==
    IF marks = <<>> \/ marks[1].tag = "body" THEN NotFound ELSE marks[1].pos
FindHeadCalled == doc.pc = "returned" /\ doc.fn = "findHead"

\* C15: findHead returns the first head element in depth-first order, and
\* not-found as soon as a body element is met before any head: a head that
\* comes after a body in that order is never returned.
C15_BodyBeforeHeadIsNotFound ==
    FindHeadCalled =>
        doc.found = FirstHeadBeforeBody(SelectSeq(Preorder(doc.tree, <<>>), IsHeadOrBody))

\* the paths of the source below its root
SourcePaths == {filesys[i].path : i \in 1..Len(filesys)} \ {DOT}
\* CopyFileSys has returned from a walk with a nil hook that met no failure
CopiedWithNilHook ==
    /\ ctor.entry = "CopyFileSys" \/ (HandlerEntry /\ opts.webEnv = "nil")
    /\ CallOver /\ ctor.hook.kind = "nil" /\ ctor.failedAt = 0

\* C16: CopyFileSys with a nil hook on a source of regular files and
\* directories succeeds, and the Snapshot has exactly the paths of the source
\* (empty directories included), each a directory where the source has one
\* and each file with the bytes of the source.
C16_NilHookCopiesExactly ==
    CopiedWithNilHook =>
        /\ ctor.err = ErrNone /\ ctor.pc # "panic"
        /\ DOMAIN mfilesys = SourcePaths
        /\ \A i \in 2..Len(filesys) :
              /\ mfilesys[filesys[i].path].isDir = filesys[i].isDir
              /\ mfilesys[filesys[i].path].data = filesys[i].data

C16_Witness ==
    /\ ctor.entry = "CopyFileSys" /\ ctor.pc = "returned" /\ ctor.run = 1
    /\ ctor.hook = NilHook /\ ctor.failedAt = 0 /\ filesys = TreeNested
    /\ DirB \in DOMAIN mfilesys /\ mfilesys[DirB].isDir
    /\ mfilesys[IndexInA].data = DocHead

\* the second of two CopyFileSys calls on one source with one hook value is over
SecondRunOver ==
    /\ ctor.entry = "CopyFileSys" /\ ctor.run = 2 /\ ctor.failedAt = 0
    /\ ctor.pc \in {"returned", "panic"}

\* C17: CopyFileSys run twice on the same source with the same hook value (in
\* particular the hook of one appendToIndex call for one script node)
\* completes both times, with the same error and identical Snapshots.
C17_RepeatedCopyIdentical ==
    SecondRunOver =>
        /\ ctor.pc = "returned"
        /\ ctor.err = ctor.first.err
        /\ mfilesys = ctor.first.fs

\* a CopyFileSys call in which the processing of one entry failed is over
FailedWalkOver == CallOver /\ ctor.failedAt # 0
LastVisited == ctor.visited[Len(ctor.visited)]

\* C18: a failure on any single entry (mkdir, open, read, hook, write) stops
\* the walk at that entry: no later entry is opened, hooked or written, and
\* CopyFileSys returns a non-nil error, a hook's error exactly as the hook
\* produced it.
C18_FailureStopsWalk ==
    FailedWalkOver =>
        /\ ctor.pc # "panic"
        /\ ctor.err # ErrNone
        /\ LastVisited = ctor.failedAt
        /\ ctor.fault \in HookFaults => ctor.err = HookFaultError(ctor.fault)

\* the request's log has a record of the level that carries the resolved path
Logged(r, level) ==
    \E k \in 1..Len(r.logs) : r.logs[k].level = level /\ r.logs[k].path = r.cleaned
\* a request answered by a handler of the root package that has a logger
AnsweredWithLogger(i) ==
    /\ reqs[i].pc = "done" /\ reqs[i].variant \in {"ServeHTTP", "legacy"}
    /\ opts.logger # "nil"

\* C19: every resolution branch other than the asset success path emits a log
\* record carrying the resolved path: at error severity for the not-found and
\* server-error outcomes, at debug severity for the entry-document fallback;
\* so with a logger whose threshold is above debug a request for a missing
\* file with an extension still produces a record with that path.
C19_BranchesLogged ==
    \A i \in Slots :
        AnsweredWithLogger(i) =>
            /\ reqs[i].branch \in {"notfound", "servererror"} => Logged(reqs[i], "error")
            /\ (reqs[i].branch = "fallback" /\ opts.logger = "debug") => Logged(reqs[i], "debug")

\* the path's parent is the root, or a directory of the Snapshot
ParentPresent(p) == Dir(p) = DOT \/ (Dir(p) \in DOMAIN mfilesys /\ mfilesys[Dir(p)].isDir)
\* the path at place k of the insertion order came after its parent
ParentInsertedBefore(k) ==
    Dir(ctor.order[k]) = DOT \/ \E j \in 1..(k - 1) : ctor.order[j] = Dir(ctor.order[k])
\* the walk function returned nil on the directory at entry i
DirectoryVisited(i) ==
    /\ \E k \in 1..Len(ctor.visited) : ctor.visited[k] = i
    /\ filesys[i].isDir /\ filesys[i].path # DOT /\ ctor.failedAt # i
\* the walk function of CopyFileSys has been called
InCopyFileSys == ctor.visited # <<>>

\* C20: at every step of CopyFileSys every non-root path of the Snapshot has
\* its parent directory in the Snapshot, created before the path was inserted:
\* each directory the walk has passed is in the Snapshot as a directory, and
\* the Snapshot holds exactly the paths inserted, each after its parent.
C20_ParentsBeforeChildren ==
    InCopyFileSys =>
        /\ \A p \in DOMAIN mfilesys : ParentPresent(p)
        /\ DOMAIN mfilesys = {ctor.order[k] : k \in 1..Len(ctor.order)}
        /\ \A k \in 1..Len(ctor.order) : ParentInsertedBefore(k)
        /\ \A i \in 1..Len(filesys) :
              DirectoryVisited(i) =>
                  (filesys[i].path \in DOMAIN mfilesys /\ mfilesys[filesys[i].path].isDir)

C20_Witness ==
    /\ ctor.pc = "walk" /\ ctor.entry = "CopyFileSys" /\ filesys = TreeNested
    /\ ctor.order = <<DirA, FileInA>>
    /\ DOMAIN mfilesys = {DirA, FileInA}

\* the steps of an injection in the order the claim gives them
StepOrder == <<"namespace", "index", "marshal", "copy">>
\* the first step that fails for the inputs of the call ("copy" when the three
\* checks pass: the copy runs, and fails or not)
EarliestFailing ==
    IF NamespaceCheck(ctor.nsArg) # ErrNone THEN 1
    ELSE IF NoRootIndex THEN 2
    ELSE IF opts.webEnv = "bad" THEN 3
    ELSE 4
\* the error that belongs to a step
ErrorOfStep(k, err) ==
    CASE k = 1 -> err \in {ErrNoNamespace, ErrCouldNotParseNamespace}
      [] k = 2 -> errorsIs(err, ErrNoIndexFound)
      [] k = 3 -> errorsIs(err, ErrCouldNotMarshalConfig)
      [] k = 4 -> TRUE
\* a call of an injection function is over
InjectionOver ==
    /\ ctor.entry \in Injections \/ (HandlerEntry /\ opts.webEnv # "nil")
    /\ CallOver

\* C21: the injection runs its steps in the fixed order namespace validation,
\* entry-document check, configuration serialization, copy with the splice
\* hook: the steps executed are those up to the earliest failing one, in that
\* order, none after it, and the error returned is the error of that step.
C21_EarliestFailureWins ==
    InjectionOver =>
        /\ ctor.steps = SubSeq(StepOrder, 1, EarliestFailing)
        /\ ErrorOfStep(EarliestFailing, ctor.err)
        /\ EarliestFailing < 4 => (ctor.err # ErrNone /\ ctor.visited = <<>>)
        /\ EarliestFailing < 2 => ctor.io = <<>>

IsOpenEvent(e) == e = "open"
IsCloseEvent(e) == e = "close"
\* every close of the request comes before every write to the response
ClosedBeforeResponse(r) ==
    \A j, k \in 1..Len(r.trace) :
        (r.trace[j] = "close" /\ IsResponder(r.trace[k])) => j < k

\* C22: every file handle the resolver gets from its existence probe is closed
\* exactly once on every branch, before the request is delegated to the file
\* server or an error response is written; none is open when the handler
\* returns.
C22_HandleClosedBeforeResponse ==
    \A i \in Slots :
        reqs[i].pc = "done" =>
            /\ Len(SelectSeq(reqs[i].trace, IsOpenEvent)) = (IF reqs[i].probe = "ok" THEN 1 ELSE 0)
            /\ Len(SelectSeq(reqs[i].trace, IsCloseEvent)) = Len(SelectSeq(reqs[i].trace, IsOpenEvent))
            /\ ClosedBeforeResponse(reqs[i])

\* CopyFileSys or InjectWebEnv has returned an error to its caller
ReturnedWithError ==
    /\ ctor.entry \in {"CopyFileSys", "InjectWebEnv"}
    /\ ctor.pc = "returned" /\ ctor.err # ErrNone

\* C23: whenever CopyFileSys or InjectWebEnv returns an error, a failure part
\* way through the copy included, the Snapshot returned beside it is nil: a
\* partially filled Snapshot is never handed to the caller.
C23_NoSnapshotWithError ==
    ReturnedWithError => ctor.snapshot = "nil"

====
